---- MODULE Spec2Model ----
(***************************************************************************)
(* newton_sqrt(n, verbose=False) of the math.isclose() notebook:           *)
(* Newton's method for the square root on Python floats.                   *)
(*                                                                         *)
(* A Python float is an IEEE 754 binary64 number.  The arithmetic of the   *)
(* function ( / , + , math.isclose, and * and math.sqrt in its callers) is *)
(* modelled bit for bit: a finite float is sign, 53-bit significand and    *)
(* exponent, every operation is computed exactly on integers and rounded   *)
(* once, to nearest, ties to even, with subnormals, overflow to infinity   *)
(* and NaN.  TLC's integers are 32 bits wide, so the significands are      *)
(* held as little-endian sequences of 15-bit limbs.                        *)
(***************************************************************************)
EXTENDS Integers, Sequences, FiniteSets

VARIABLES call, twin

vars == <<call, twin>>

(***************************************************************************)
(* Natural numbers of any size: little-endian limb sequences, no leading   *)
(* zero limb, <<>> is zero.                                                *)
(***************************************************************************)
LimbBits == 15

Base == 2 ^ LimbBits

Pow2(k) == 2 ^ k

Limb(a, i) == IF i >= 1 /\ i <= Len(a) THEN a[i] ELSE 0

RECURSIVE BTrim(_)
BTrim(a) ==
    IF a = <<>> THEN a
    ELSE IF a[Len(a)] = 0 THEN BTrim(SubSeq(a, 1, Len(a) - 1))
    ELSE a

BFromInt(k) ==
    BTrim(<<k % Base, (k \div Base) % Base, k \div (Base * Base)>>)

BIsZero(a) == a = <<>>

BIsOdd(a) == a # <<>> /\ a[1] % 2 = 1

RECURSIVE BCmpAt(_, _, _)
BCmpAt(a, b, i) ==
    IF i = 0 THEN 0
    ELSE IF a[i] < b[i] THEN -1
    ELSE IF a[i] > b[i] THEN 1
    ELSE BCmpAt(a, b, i - 1)

\* -1, 0 or 1 as a < b, a = b, a > b
BCmp(a, b) ==
    IF Len(a) < Len(b) THEN -1
    ELSE IF Len(a) > Len(b) THEN 1
    ELSE BCmpAt(a, b, Len(a))

RECURSIVE BAddAt(_, _, _, _)
BAddAt(a, b, i, c) ==
    IF i > Len(a) /\ i > Len(b) THEN (IF c = 0 THEN <<>> ELSE <<c>>)
    ELSE LET s == Limb(a, i) + Limb(b, i) + c
         IN  <<s % Base>> \o BAddAt(a, b, i + 1, s \div Base)

BAdd(a, b) == BTrim(BAddAt(a, b, 1, 0))

RECURSIVE BSubAt(_, _, _, _)
BSubAt(a, b, i, br) ==
    IF i > Len(a) THEN <<>>
    ELSE LET d == a[i] - Limb(b, i) - br
         IN  <<(d + Base) % Base>> \o BSubAt(a, b, i + 1, IF d < 0 THEN 1 ELSE 0)

\* a - b, for a >= b
BSub(a, b) == BTrim(BSubAt(a, b, 1, 0))

RECURSIVE BMulSmallAt(_, _, _, _)
BMulSmallAt(a, k, i, c) ==
    IF i > Len(a) THEN (IF c = 0 THEN <<>> ELSE <<c>>)
    ELSE LET s == a[i] * k + c
         IN  <<s % Base>> \o BMulSmallAt(a, k, i + 1, s \div Base)

\* a * k, for 0 <= k < Base
BMulSmall(a, k) == BTrim(BMulSmallAt(a, k, 1, 0))

\* a * Base^j
BShiftLimbs(a, j) ==
    IF a = <<>> \/ j = 0 THEN a ELSE [i \in 1..j |-> 0] \o a

RECURSIVE BMulAt(_, _, _)
BMulAt(a, b, i) ==
    IF i > Len(b) THEN <<>>
    ELSE BAdd(BShiftLimbs(BMulSmall(a, b[i]), i - 1), BMulAt(a, b, i + 1))

BMul(a, b) == BMulAt(a, b, 1)

\* a * 2^k
BShl(a, k) == BShiftLimbs(BMulSmall(a, Pow2(k % LimbBits)), k \div LimbBits)

\* a \div 2^k
BShr(a, k) ==
    LET j == k \div LimbBits
        s == k % LimbBits
        p == Pow2(s)
        q == Pow2(LimbBits - s)
    IN  IF j >= Len(a) THEN <<>>
        ELSE BTrim([i \in 1..(Len(a) - j) |->
                      (a[i + j] \div p) + (Limb(a, i + j + 1) % p) * q])

\* are the k low bits of a all zero
BLowZero(a, k) ==
    LET j == k \div LimbBits
        s == k % LimbBits
    IN  /\ \A i \in 1..j : Limb(a, i) = 0
        /\ Limb(a, j + 1) % Pow2(s) = 0

\* bit i of a, bit 0 the lowest
BBit(a, i) == (Limb(a, (i \div LimbBits) + 1) \div Pow2(i % LimbBits)) % 2

SmallBitLen(x) == CHOOSE k \in 0..LimbBits : x < Pow2(k) /\ (k = 0 \/ x >= Pow2(k - 1))

BBitLen(a) ==
    IF a = <<>> THEN 0
    ELSE LimbBits * (Len(a) - 1) + SmallBitLen(a[Len(a)])

\* the largest d with d * b <= r, for b with its top limb >= Base/2 and r < b * Base
RECURSIVE BFit(_, _, _)
BFit(r, b, d) ==
    IF d > 0 /\ BCmp(BMulSmall(b, d), r) > 0 THEN BFit(r, b, d - 1) ELSE d

BDigit(r, b) ==
    LET L == Len(b)
        top == Limb(r, L + 1) * Base + Limb(r, L)
        est == top \div b[L]
    IN  BFit(r, b, IF est > Base - 1 THEN Base - 1 ELSE est)

\* long division limb by limb from limb i of a down: <<quotient limbs, remainder>>
RECURSIVE BDivAt(_, _, _, _)
BDivAt(a, b, i, r) ==
    IF i = 0 THEN <<<<>>, r>>
    ELSE LET r2 == BTrim(<<a[i]>> \o r)
             d == BDigit(r2, b)
             rest == BDivAt(a, b, i - 1, BSub(r2, BMulSmall(b, d)))
         IN  <<Append(rest[1], d), rest[2]>>

\* <<a \div b, whether a % b # 0>>, for b # 0
BDivMod(a, b) ==
    LET s == LimbBits - SmallBitLen(b[Len(b)])
        qr == BDivAt(BShl(a, s), BShl(b, s), Len(BShl(a, s)), <<>>)
    IN  <<BTrim(qr[1]), qr[2] # <<>>>>

\* the integer square root: the largest r with r * r <= a, found bit by bit from bit i
RECURSIVE BSqrtAt(_, _, _)
BSqrtAt(a, i, r) ==
    IF i < 0 THEN r
    ELSE LET c == BAdd(r, BShl(<<1>>, i))
             fits == BCmp(BMul(c, c), a) <= 0
         IN  IF fits THEN BSqrtAt(a, i - 1, c) ELSE BSqrtAt(a, i - 1, r)

BSqrt(a) == BSqrtAt(a, BBitLen(a) \div 2, <<>>)

(***************************************************************************)
(* Python floats: IEEE 754 binary64.  A finite float is                    *)
(* (-1)^neg * man * 2^exp with either 2^52 <= man < 2^53 and               *)
(* EMin <= exp <= EMax (normal), or man < 2^52 and exp = EMin (subnormal   *)
(* or zero), so that equal records are the same float.                     *)
(***************************************************************************)
Precision == 53

EMin == -1074

EMax == 971

NaN == [cls |-> "nan", neg |-> FALSE, man |-> <<>>, exp |-> 0]

Inf(neg) == [cls |-> "inf", neg |-> neg, man |-> <<>>, exp |-> 0]

Zero(neg) == [cls |-> "fin", neg |-> neg, man |-> <<>>, exp |-> EMin]

IsNaN(x) == x.cls = "nan"

IsInf(x) == x.cls = "inf"

IsFinite(x) == x.cls = "fin"

IsZero(x) == x.cls = "fin" /\ x.man = <<>>

\* the float of the significand m at exponent e, infinite past the largest exponent
Pack(neg, m, e) ==
    IF m = <<>> THEN Zero(neg)
    ELSE IF e > EMax THEN Inf(neg)
    ELSE [cls |-> "fin", neg |-> neg, man |-> m, exp |-> e]

\* (-1)^neg * (M + f) * 2^e rounded to nearest, ties to even, where 0 < f < 1 if
\* sticky and f = 0 if not (sticky only with M of more than Precision + 1 bits)
Round(neg, M, e, sticky) ==
    LET L == BBitLen(M)
        te == IF e + L - Precision > EMin THEN e + L - Precision ELSE EMin
        d == te - e
    IN  IF d <= 0 THEN Pack(neg, BShl(M, -d), te)
        ELSE LET q == BShr(M, d)
                 half == BBit(M, d - 1) = 1
                 rest == sticky \/ ~BLowZero(M, d - 1)
                 up == half /\ (rest \/ BIsOdd(q))
                 r == IF up THEN BAdd(q, <<1>>) ELSE q
             IN  IF BBitLen(r) > Precision THEN Pack(neg, BShr(r, 1), te + 1)
                 ELSE Pack(neg, r, te)

\* int -> float, for |k| < 2^31
FInt(k) == Round(k < 0, BFromInt(IF k < 0 THEN -k ELSE k), 0, FALSE)

FNeg(x) == IF IsNaN(x) THEN x ELSE [x EXCEPT !.neg = ~x.neg]

FAbs(x) == IF IsNaN(x) THEN x ELSE [x EXCEPT !.neg = FALSE]

\* x + y of two finite floats, neither zero, hi the one with the larger exponent
AddFinite(hi, lo) ==
    LET gap == hi.exp - lo.exp
        A == BShl(hi.man, gap)
        c == BCmp(A, lo.man)
    IN  IF gap > Precision + 2 THEN hi
        ELSE IF hi.neg = lo.neg THEN Round(hi.neg, BAdd(A, lo.man), lo.exp, FALSE)
        ELSE IF c = 0 THEN Zero(FALSE)
        ELSE IF c > 0 THEN Round(hi.neg, BSub(A, lo.man), lo.exp, FALSE)
        ELSE Round(lo.neg, BSub(lo.man, A), lo.exp, FALSE)

\* float + float
FAdd(x, y) ==
    IF IsNaN(x) \/ IsNaN(y) THEN NaN
    ELSE IF IsInf(x) THEN (IF IsInf(y) /\ x.neg # y.neg THEN NaN ELSE x)
    ELSE IF IsInf(y) THEN y
    ELSE IF IsZero(x) /\ IsZero(y) THEN Zero(x.neg /\ y.neg)
    ELSE IF IsZero(x) THEN y
    ELSE IF IsZero(y) THEN x
    ELSE IF x.exp >= y.exp THEN AddFinite(x, y)
    ELSE AddFinite(y, x)

\* float - float
FSub(x, y) == FAdd(x, FNeg(y))

\* float * float
FMul(x, y) ==
    IF IsNaN(x) \/ IsNaN(y) THEN NaN
    ELSE IF IsInf(x) \/ IsInf(y)
         THEN (IF IsZero(x) \/ IsZero(y) THEN NaN ELSE Inf(x.neg # y.neg))
    ELSE IF IsZero(x) \/ IsZero(y) THEN Zero(x.neg # y.neg)
    ELSE Round(x.neg # y.neg, BMul(x.man, y.man), x.exp + y.exp, FALSE)

\* the IEEE quotient x / y; Python raises ZeroDivisionError instead of
\* evaluating it when y is zero (see Divides)
FDiv(x, y) ==
    IF IsNaN(x) \/ IsNaN(y) THEN NaN
    ELSE IF IsInf(x) THEN (IF IsInf(y) THEN NaN ELSE Inf(x.neg # y.neg))
    ELSE IF IsInf(y) THEN Zero(x.neg # y.neg)
    ELSE IF IsZero(y) THEN (IF IsZero(x) THEN NaN ELSE Inf(x.neg # y.neg))
    ELSE IF IsZero(x) THEN Zero(x.neg # y.neg)
    ELSE LET want == Precision + 3 + BBitLen(y.man) - BBitLen(x.man)
             k == IF want > 0 THEN want ELSE 0
             qr == BDivMod(BShl(x.man, k), y.man)
         IN  Round(x.neg # y.neg, qr[1], x.exp - y.exp - k, qr[2])

\* -1, 0, 1 as |x| < |y|, |x| = |y|, |x| > |y|, for x and y not NaN
MagCmp(x, y) ==
    IF IsInf(x) THEN (IF IsInf(y) THEN 0 ELSE 1)
    ELSE IF IsInf(y) THEN -1
    ELSE IF x.exp < y.exp THEN -1
    ELSE IF x.exp > y.exp THEN 1
    ELSE BCmp(x.man, y.man)

\* -1, 0, 1 as x < y, x = y, x > y, for x and y not NaN (-0.0 = 0.0)
FCmp(x, y) ==
    IF IsZero(x) /\ IsZero(y) THEN 0
    ELSE IF x.neg /\ ~y.neg THEN -1
    ELSE IF ~x.neg /\ y.neg THEN 1
    ELSE IF x.neg THEN -MagCmp(x, y)
    ELSE MagCmp(x, y)

\* float == float, float < float, float <= float: False when either is NaN
FEq(x, y) == ~IsNaN(x) /\ ~IsNaN(y) /\ FCmp(x, y) = 0

FLt(x, y) == ~IsNaN(x) /\ ~IsNaN(y) /\ FCmp(x, y) < 0

FLe(x, y) == ~IsNaN(x) /\ ~IsNaN(y) /\ FCmp(x, y) <= 0

\* math.sqrt of a float x >= 0, correctly rounded
FSqrt(x) ==
    IF IsNaN(x) \/ IsInf(x) \/ IsZero(x) THEN x
    ELSE LET want == 2 * Precision + 4 - BBitLen(x.man)
             k == IF (x.exp - want) % 2 = 0 THEN want ELSE want + 1
             M == BShl(x.man, k)
             r == BSqrt(M)
         IN  Round(FALSE, r, (x.exp - k) \div 2, BCmp(BMul(r, r), M) # 0)

\* the defaults of math.isclose(a, b, *, rel_tol=1e-09, abs_tol=0.0)
RelTol == FDiv(FInt(1), FInt(1000000000))

AbsTol == Zero(FALSE)

\* a slip: closeness written as "not diff > tolerance", which a NaN passes
IsCloseNotGreater(a, b) ==
    LET diff == FAbs(FSub(b, a))
    IN  ~FLt(FAbs(FMul(RelTol, b)), diff) \/ ~FLt(FAbs(FMul(RelTol, a)), diff)

\* math.isclose(a, b) as the math module computes it
IsClose(a, b) ==
    IF FEq(a, b) THEN TRUE
    ELSE IF IsInf(a) \/ IsInf(b) THEN FALSE
    ELSE LET diff == FAbs(FSub(b, a))
         IN  \/ FLe(diff, FAbs(FMul(RelTol, b)))
             \/ FLe(diff, FAbs(FMul(RelTol, a)))
             \/ FLe(diff, AbsTol)

(***************************************************************************)
(* The call newton_sqrt(n, verbose).  A frame holds the arguments and      *)
(* locals of one call, the line it is at, what it has printed and what it  *)
(* returned:                                                               *)
(*   pc = "start"    about to run   guess = n / 2                          *)
(*        "print"    about to run   if verbose: print('guess ->', guess)   *)
(*        "compute"  about to run   better_guess = (guess + n/guess) / 2   *)
(*        "test"     about to run   if math.isclose(guess, better_guess)   *)
(*        "done"     returned better_guess                                 *)
(*        "fault"    left by the ZeroDivisionError of n/guess              *)
(*        "idle"     no call                                               *)
(* iter numbers the iterations of the loop, that is the guesses taken.     *)
(* The loop has no iteration limit; the model follows a call for Budget    *)
(* iterations and no further.                                              *)
(***************************************************************************)
None == [cls |-> "none", neg |-> FALSE, man |-> <<>>, exp |-> 0]

\* the largest integer argument, the largest numerator of an argument k/100
MaxInt == 16

\* the arguments -1 .. -MaxNeg
MaxNeg == 4

\* iterations explored of a call with a finite n >= 0 (each of them ends sooner)
MaxIter == 600

\* iterations explored of a call with n < 0, infinite or NaN
MaxLoop == 40

\* for n in range(9, 17)
RangeLo == 9

RangeHi == 17

\* the argument of the notebook's sample calls newton_sqrt(100), newton_sqrt(100, True)
Sample == 100

MinSubnormal == [cls |-> "fin", neg |-> FALSE, man |-> <<1>>, exp |-> EMin]

MaxFloat ==
    [cls |-> "fin", neg |-> FALSE,
     man |-> BSub(BShl(<<1>>, Precision), <<1>>), exp |-> EMax]

\* the arguments explored: integers, hundredths, zeros, and the ends of the float range
Inputs ==
    {FInt(k) : k \in (-MaxNeg..MaxInt) \cup {Sample}}
    \cup {FDiv(FInt(k), FInt(100)) : k \in 1..MaxInt}
    \cup {Zero(TRUE), MinSubnormal, MaxFloat, Inf(FALSE), Inf(TRUE), NaN}

IsPositive(x) == FLt(Zero(FALSE), x)

IsNegative(x) == FLt(x, Zero(FALSE))

Idle ==
    [n |-> None, verbose |-> FALSE, guess |-> None, better_guess |-> None,
     pc |-> "idle", out |-> <<>>, ret |-> None, iter |-> 0]

\* the frame of a call newton_sqrt(n, verbose) on entry
Frame(n, verbose) == [Idle EXCEPT !.n = n, !.verbose = verbose, !.pc = "start"]

Budget(f) == IF IsFinite(f.n) /\ ~IsNegative(f.n) THEN MaxIter ELSE MaxLoop

\* a slip: guess = n
DoStartWhole(f) == [f EXCEPT !.guess = f.n, !.iter = 1, !.pc = "print"]

\* guess = n / 2
DoStart(f) ==
    [f EXCEPT !.guess = FDiv(f.n, FInt(2)), !.iter = 1, !.pc = "print"]

\* a slip: print('guess ->', guess) outside the if
DoEmitAlways(f) == [f EXCEPT !.out = Append(f.out, f.guess), !.pc = "compute"]

\* if verbose: print('guess ->', guess)
DoEmit(f) ==
    [f EXCEPT !.out = IF f.verbose THEN Append(f.out, f.guess) ELSE f.out,
              !.pc = "compute"]

\* a slip: the division of IEEE 754, which yields inf or NaN and never raises
DivNeverFaults(x, y) == FALSE

\* whether x / y raises ZeroDivisionError
DivFaults(x, y) == IsZero(y)

\* a slip: (guess + abs(n)/guess) / 2
BetterGuessAbs(n, guess) == FDiv(FAdd(guess, FDiv(FAbs(n), guess)), FInt(2))

\* a slip: (guess + n/guess) / 3
BetterGuessThird(n, guess) == FDiv(FAdd(guess, FDiv(n, guess)), FInt(3))

\* (guess + n/guess) / 2
BetterGuess(n, guess) == FDiv(FAdd(guess, FDiv(n, guess)), FInt(2))

\* a slip: the traced call computing better_guess from the halved guess
DoComputeTraced(f) ==
    [f EXCEPT !.better_guess =
                  BetterGuess(f.n, IF f.verbose THEN FDiv(f.guess, FInt(2))
                                   ELSE f.guess),
              !.pc = "test"]

\* better_guess = (guess + n/guess) / 2
DoCompute(f) ==
    [f EXCEPT !.better_guess = BetterGuess(f.n, f.guess), !.pc = "test"]

\* n/guess raises ZeroDivisionError, which nothing catches
DoFault(f) == [f EXCEPT !.pc = "fault"]

\* a slip: math.isclose(better_guess, better_guess)
ConvergedSelf(f) == IsClose(f.better_guess, f.better_guess)

\* math.isclose(guess, better_guess)
Converged(f) == IsClose(f.guess, f.better_guess)

\* a slip: return guess
DoReturnGuess(f) == [f EXCEPT !.ret = f.guess, !.pc = "done"]

\* return better_guess
DoReturn(f) == [f EXCEPT !.ret = f.better_guess, !.pc = "done"]

\* guess = better_guess, and round the loop
DoAdvance(f) ==
    [f EXCEPT !.guess = f.better_guess,
              !.iter = f.iter + 1,
              !.pc = "print"]

\* the exploration bound: the call goes on, into an iteration that is not explored
Capped(f) == f.pc = "test" /\ ~Converged(f) /\ f.iter >= Budget(f)

\* the test failed and the next guess is this guess again, bit for bit: every
\* later iteration computes the same better_guess and fails the same test, so
\* the call is in a loop that it never leaves
Stuck(f) == f.pc = "test" /\ ~Converged(f) /\ f.better_guess = f.guess

Ended(f) == f.pc \in {"done", "fault"}

CanStart(f) == f.pc = "start"

CanEmit(f) == f.pc = "print"

CanCompute(f) == f.pc = "compute" /\ ~DivFaults(f.n, f.guess)

CanFault(f) == f.pc = "compute" /\ DivFaults(f.n, f.guess)

CanReturn(f) == f.pc = "test" /\ Converged(f)

CanAdvance(f) == f.pc = "test" /\ ~Converged(f) /\ ~Capped(f)

CanStep(f) ==
    \/ CanStart(f) \/ CanEmit(f) \/ CanCompute(f)
    \/ CanFault(f) \/ CanReturn(f) \/ CanAdvance(f)

\* the next line of the call
StepF(f) ==
    IF CanStart(f) THEN DoStart(f)
    ELSE IF CanEmit(f) THEN DoEmit(f)
    ELSE IF CanCompute(f) THEN DoCompute(f)
    ELSE IF CanFault(f) THEN DoFault(f)
    ELSE IF CanReturn(f) THEN DoReturn(f)
    ELSE IF CanAdvance(f) THEN DoAdvance(f)
    ELSE f

(***************************************************************************)
(* Spec: one call newton_sqrt(n, verbose).                                 *)
(***************************************************************************)
Init ==
    /\ \E n \in Inputs : \E verbose \in BOOLEAN : call = Frame(n, verbose)
    /\ twin = Idle

Start == CanStart(call) /\ call' = DoStart(call) /\ UNCHANGED twin

Emit == CanEmit(call) /\ call' = DoEmit(call) /\ UNCHANGED twin

Compute == CanCompute(call) /\ call' = DoCompute(call) /\ UNCHANGED twin

Fault == CanFault(call) /\ call' = DoFault(call) /\ UNCHANGED twin

Return == CanReturn(call) /\ call' = DoReturn(call) /\ UNCHANGED twin

Advance == CanAdvance(call) /\ call' = DoAdvance(call) /\ UNCHANGED twin

Next == Start \/ Emit \/ Compute \/ Fault \/ Return \/ Advance

Spec == Init /\ [][Next]_vars

(***************************************************************************)
(* PairSpec: the calls newton_sqrt(n, True) and newton_sqrt(n), line for   *)
(* line side by side.                                                      *)
(***************************************************************************)
PairInit ==
    \E n \in Inputs : call = Frame(n, TRUE) /\ twin = Frame(n, FALSE)

PairStep ==
    /\ CanStep(call) \/ CanStep(twin)
    /\ call' = StepF(call)
    /\ twin' = StepF(twin)

PairSpec == PairInit /\ [][PairStep]_vars

(***************************************************************************)
(* SquareSpec: r = newton_sqrt(n), and then the call newton_sqrt(r * r).   *)
(***************************************************************************)
SquareInit == \E n \in Inputs : call = Frame(n, FALSE) /\ twin = Idle

Square ==
    /\ call.pc = "done" /\ twin.pc = "idle"
    /\ twin' = Frame(FMul(call.ret, call.ret), FALSE)
    /\ UNCHANGED call

SquareStep == CanStep(twin) /\ twin' = StepF(twin) /\ UNCHANGED call

SquareNext == Next \/ Square \/ SquareStep

SquareSpec == SquareInit /\ [][SquareNext]_vars

(***************************************************************************)
(* The closeness predicate as the specification writes it,                 *)
(*   abs(a - b) <= max(rel_tol * max(abs(a), abs(b)), abs_tol),            *)
(* evaluated in float arithmetic with rel_tol = 1e-9 and abs_tol = 0.      *)
(***************************************************************************)
FMax(x, y) == IF FLt(x, y) THEN y ELSE x

ClosePredicate(a, b) ==
    FLe(FAbs(FSub(a, b)),
        FMax(FMul(RelTol, FMax(FAbs(a), FAbs(b))), AbsTol))

(***************************************************************************)
(* C1.  For every n > 0 the value r that newton_sqrt(n) returns satisfies  *)
(* abs(r*r - n) <= 1e-9 * max(abs(r*r), abs(n)).                           *)
(* (For the largest float r*r overflows to inf and both sides are inf.)    *)
(***************************************************************************)
C1_SquareClose ==
    (call.pc = "done" /\ IsPositive(call.n))
        => ClosePredicate(FMul(call.ret, call.ret), call.n)

\* a call that went round the loop and returned a root whose square is not n
C1_Witness ==
    /\ call.pc = "done" /\ IsPositive(call.n) /\ call.iter >= 2
    /\ FMul(call.ret, call.ret) # call.n

(***************************************************************************)
(* C2.  For every n > 0 the call newton_sqrt(n) returns: no guess is ever  *)
(* 0, so n/guess never faults, and the loop does not run forever.          *)
(* Refuted: n = 5e-324 gives guess = n/2 = 0.0 and the division faults;    *)
(* n = inf gives guess = NaN in every iteration after the first.           *)
(***************************************************************************)
C2_ReturnsForPositive ==
    IsPositive(call.n) => (call.pc # "fault" /\ ~Stuck(call))

(***************************************************************************)
(* C3, as claimed.  Every call ends, by returning or by faulting: no call  *)
(* is in a loop that it never leaves.  Refuted by n = inf, -inf and NaN.   *)
(***************************************************************************)
C3_NoEndlessLoop == call.pc \in {"done", "fault"} \/ ~Stuck(call)

(***************************************************************************)
(* C3, amended.  A call ends in one of exactly two ways, returning         *)
(* better_guess after math.isclose(guess, better_guess) held, or faulting  *)
(* on n/guess with guess = 0; but not every call ends: for n = inf, -inf   *)
(* or NaN no division faults, every better_guess is NaN, the test fails    *)
(* every time, and the call never ends.                                    *)
(***************************************************************************)
C3_TwoEndsOrNone ==
    /\ call.pc = "done" =>
         IsClose(call.guess, call.better_guess) /\ call.ret = call.better_guess
    /\ call.pc = "fault" => IsZero(call.guess) /\ call.ret = None
    /\ ~IsFinite(call.n) =>
         /\ ~Ended(call)
         /\ call.pc = "compute" => ~DivFaults(call.n, call.guess)
         /\ call.pc = "test" =>
              IsNaN(call.better_guess) /\ ~IsClose(call.guess, call.better_guess)

\* a call on an infinite or NaN n, in its second or a later iteration, guess = NaN
C3_Witness ==
    /\ ~IsFinite(call.n) /\ call.pc = "test" /\ call.iter >= 2
    /\ IsNaN(call.guess)

(***************************************************************************)
(* C4.  For n = 0 (0, 0.0 or -0.0) guess = n/2 is zero and the first       *)
(* evaluation of n/guess faults: the call is in its first iteration,       *)
(* better_guess was never bound, no closeness test was reached, nothing    *)
(* is returned, and once faulted the call takes no further step.           *)
(***************************************************************************)
C4_ZeroFaultsAtOnce ==
    IsZero(call.n) =>
        /\ call.pc \in {"start", "print", "compute", "fault"}
        /\ call.iter <= 1
        /\ call.better_guess = None /\ call.ret = None
        /\ call.pc # "start" => IsZero(call.guess)
        /\ call.pc = "compute" => CanFault(call) /\ ~CanCompute(call)
        /\ call.pc = "fault" => ~CanStep(call)

\* the call newton_sqrt(0) after the fault
C4_Witness == IsZero(call.n) /\ call.pc = "fault" /\ IsZero(call.guess)

(***************************************************************************)
(* C5.  With verbose set the call prints one value per iteration, the      *)
(* guess of that iteration: nothing before the first iteration, iter - 1   *)
(* values when iteration iter is about to print and iter values after;     *)
(* the first value is n/2; the value printed last is the current guess,    *)
(* printed before better_guess is computed from it; a step prints only at  *)
(* the print line, and only appends the guess, so nothing is printed by    *)
(* or after the return and better_guess is not printed when returned.      *)
(* With verbose unset nothing is printed.                                  *)
(***************************************************************************)
C5_TraceOfGuesses ==
    /\ [](/\ ~call.verbose => call.out = <<>>
          /\ call.verbose =>
               /\ Len(call.out) =
                    IF call.pc = "start" THEN 0
                    ELSE IF call.pc = "print" THEN call.iter - 1
                    ELSE call.iter
               /\ call.out # <<>> => call.out[1] = FDiv(call.n, FInt(2))
               /\ call.pc \in {"compute", "test", "done", "fault"} =>
                    call.out[Len(call.out)] = call.guess
               /\ call.pc = "print" /\ call.iter = 1 =>
                    call.better_guess = None
               /\ call.pc = "print" /\ call.iter > 1 =>
                    call.guess = call.better_guess
               /\ call.pc \in {"test", "done"} =>
                    call.better_guess = BetterGuess(call.n, call.guess)
               /\ call.pc = "done" => call.ret = call.better_guess)
    /\ [][call'.out =
             IF call.verbose /\ call.pc = "print"
             THEN Append(call.out, call.guess) ELSE call.out]_vars

\* a verbose call that returned after several iterations a value it never printed
C5_Witness ==
    /\ call.verbose /\ call.pc = "done" /\ Len(call.out) >= 3
    /\ \A i \in 1..Len(call.out) : call.out[i] # call.ret

(***************************************************************************)
(* C6.  verbose has no effect on the computation: after the same number    *)
(* of lines the calls newton_sqrt(n, True) and newton_sqrt(n) are at the   *)
(* same line of the same iteration with the same guess and the same        *)
(* better_guess, and have ended alike, with the same returned value or     *)
(* the same fault; they differ in the output alone, of which the second    *)
(* call has none.                                                          *)
(***************************************************************************)
C6_VerboseNoEffect ==
    /\ call.verbose /\ ~twin.verbose
    /\ twin.n = call.n
    /\ twin.pc = call.pc
    /\ twin.iter = call.iter
    /\ twin.guess = call.guess
    /\ twin.better_guess = call.better_guess
    /\ twin.ret = call.ret
    /\ twin.out = <<>>
    /\ call.pc \in {"compute", "test", "done", "fault"} => Len(call.out) = call.iter

\* both calls have returned, after several iterations, the one with output
C6_Witness ==
    /\ call.pc = "done" /\ twin.pc = "done" /\ call.iter >= 3
    /\ twin.ret = call.ret /\ call.out # twin.out

(***************************************************************************)
(* C7.  For every integer n of range(9, 17) the call newton_sqrt(n)        *)
(* returns, and the value returned is close to math.sqrt(n):               *)
(* abs(r - sqrt(n)) <= 1e-9 * max(abs(r), sqrt(n)).                        *)
(***************************************************************************)
C7_CloseToSqrt ==
    call.n \in {FInt(k) : k \in RangeLo..(RangeHi - 1)} =>
        /\ call.pc # "fault" /\ ~Capped(call)
        /\ call.pc = "done" =>
             /\ ClosePredicate(call.ret, FSqrt(call.n))
             /\ IsClose(call.ret, FSqrt(call.n))

\* a call of the range that returned a value that is not exactly math.sqrt(n)
C7_Witness ==
    /\ call.n \in {FInt(k) : k \in RangeLo..(RangeHi - 1)}
    /\ call.pc = "done" /\ call.ret # FSqrt(call.n)

C9_SampleRun ==
    call.n = FInt(Sample) =>
        /\ (call.iter = 1 /\ call.pc # "start") => call.guess = FInt(50)
        /\ call.iter = 2 => call.guess = FInt(26)
        /\ call.pc \in {"test", "done"} =>
             FLt(FAbs(FSub(call.better_guess, FInt(10))),
                 FAbs(FSub(call.guess, FInt(10))))
        /\ call.pc # "fault" /\ call.iter <= 7
        /\ (call.pc = "test" /\ call.iter < 7) => ~Converged(call)
        /\ (call.pc = "test" /\ call.iter = 7) => Converged(call)
        /\ call.pc = "done" =>
             /\ call.iter = 7
             /\ call.verbose => Len(call.out) = 7
             /\ ClosePredicate(call.ret, FInt(10))

\* newton_sqrt(100, True) returned 10.0 after seven lines of output
C9_Witness ==
    /\ call.n = FInt(Sample) /\ call.verbose /\ call.pc = "done"
    /\ Len(call.out) = 7 /\ call.ret = FInt(10)

(***************************************************************************)
(* C10.  At the test of an iteration, with g = guess and                   *)
(* b = better_guess = (g + n/g)/2, the call returns exactly when           *)
(* abs(g - b) <= max(1e-9 * max(abs(g), abs(b)), 0): if so the next step   *)
(* returns b; if not the next step does not return and makes b the guess   *)
(* of the next iteration.  A call returns from a test only, so from the    *)
(* first iteration at which the predicate holds.                           *)
(***************************************************************************)
C10_ReturnWhenClose ==
    /\ [](/\ call.pc = "test" =>
               /\ call.better_guess = BetterGuess(call.n, call.guess)
               /\ CanReturn(call) <=> ClosePredicate(call.guess, call.better_guess)
               /\ CanAdvance(call) \/ Capped(call)
                      <=> ~ClosePredicate(call.guess, call.better_guess)
          /\ call.pc = "done" =>
               /\ call.ret = call.better_guess
               /\ ClosePredicate(call.guess, call.better_guess)
          /\ call.pc # "done" => call.ret = None)
    /\ [][/\ call'.pc = "done" => call.pc = "test"
          /\ call.pc = "test" =>
               IF ClosePredicate(call.guess, call.better_guess)
               THEN call'.pc = "done" /\ call'.ret = call.better_guess
               ELSE /\ call'.pc = "print" /\ call'.ret = None
                    /\ call'.guess = call.better_guess
                    /\ call'.iter = call.iter + 1]_vars

\* a call that returned in a later iteration a better_guess that is not its guess
C10_Witness ==
    /\ call.pc = "done" /\ call.iter >= 2
    /\ call.ret = call.better_guess /\ call.ret # call.guess

(***************************************************************************)
(* C11.  For every n > 0 the guesses g0 = n/2, g1, g2, ... do not move     *)
(* away from sqrt(n) from the second guess on: whenever a guess g(k),      *)
(* k >= 1, fails the test, so that better_guess becomes the guess g(k+1),  *)
(* abs(g(k+1) - sqrt(n)) <= abs(g(k) - sqrt(n)).  The step g0 -> g1 is     *)
(* exempt.  Refuted by n = inf: every guess after the first is NaN, and    *)
(* no comparison with NaN holds.                                           *)
(***************************************************************************)
C11_ErrorNonIncreasing ==
    (IsPositive(call.n) /\ call.pc = "test" /\ call.iter >= 2
        /\ ~Converged(call)) =>
        FLe(FAbs(FSub(call.better_guess, FSqrt(call.n))),
            FAbs(FSub(call.guess, FSqrt(call.n))))

(***************************************************************************)
(* C12, as claimed.  For every n < 0, at the test of every iteration       *)
(* abs(guess - better_guess) exceeds                                       *)
(* 1e-9 * max(abs(guess), abs(better_guess)).  Refuted by n = -inf, where  *)
(* better_guess and the gap are NaN and exceed nothing.                    *)
(***************************************************************************)
C12_GapExceeds ==
    (IsNegative(call.n) /\ call.pc = "test") =>
        FLt(FMul(RelTol, FMax(FAbs(call.guess), FAbs(call.better_guess))),
            FAbs(FSub(call.guess, call.better_guess)))

(***************************************************************************)
(* C12, amended.  For every n < 0 the call never returns: it ends by the   *)
(* division fault, with guess = 0 (n = -4 in its second iteration), or     *)
(* not at all.  For finite n, at the test of every iteration the gap       *)
(* abs(guess - better_guess) is (guess^2 + abs(n)) / (2*abs(guess)) up to  *)
(* rounding and exceeds 1e-9 * max(abs(guess), abs(better_guess)), so the  *)
(* test fails.  For n = -inf better_guess and the gap are NaN, and the     *)
(* test fails as well.                                                     *)
(***************************************************************************)
C12_NegativeNeverReturns ==
    IsNegative(call.n) =>
        LET gap == FAbs(FSub(call.guess, call.better_guess))
            tol == FMul(RelTol, FMax(FAbs(call.guess), FAbs(call.better_guess)))
        IN  /\ call.pc # "done" /\ call.ret = None
            /\ call.pc = "fault" => IsZero(call.guess)
            /\ call.pc = "test" =>
                 /\ call.better_guess = BetterGuess(call.n, call.guess)
                 /\ ~Converged(call) /\ ~CanReturn(call)
                 /\ ~ClosePredicate(call.guess, call.better_guess)
                 /\ IF IsFinite(call.n)
                    THEN /\ FLt(tol, gap)
                         /\ IsClose(gap,
                                FDiv(FAdd(FMul(call.guess, call.guess), FAbs(call.n)),
                                     FMul(FInt(2), FAbs(call.guess))))
                    ELSE IsNaN(call.better_guess) /\ IsNaN(gap)
            /\ call.n = FInt(-4) =>
                 /\ call.iter <= 2
                 /\ call.iter = 2 => call.pc \in {"print", "compute", "fault"}

\* a call on a finite n < 0 at the test of a later iteration, the test failing
C12_Witness ==
    /\ IsNegative(call.n) /\ IsFinite(call.n)
    /\ call.pc = "test" /\ call.iter >= 10 /\ ~Converged(call)

====
